---- MODULE Spec2Model ----
(***************************************************************************)
(* Model of ui-dialog-variations/main.js: notice() builds a modal <dialog>, *)
(* wires its form and buttons, shows it and resolves with {which, value};  *)
(* the demo commands call it through alert/confirm/warning/prompt and      *)
(* branch on the result.  JavaScript indices are kept 0-based: button idx  *)
(* is element idx+1 of the TLA+ sequence.                                  *)
(***************************************************************************)
EXTENDS Integers, Sequences, FiniteSets

\* ---------------------------------------------------------------- bounds
MaxButtons == 2

\* ------------------------------------------------------------- constants
DefaultIconSize == 14
AppIconSize == 32
HttpPrefixLen == 4

\* ------------------------------------------------------ JavaScript values
Undefined == "undefined"
Truthy(v) == v # Undefined /\ v # ""
None == << >>
Some(x) == << x >>
IsSome(o) == Len(o) = 1

AppIconSentinel == "app-icon"
ManifestIconName == "images/icon.png"
AlertRedIcon == "assets/alert-red.png"

\* messages are character sequences so that substr(0, 4) is computed
LinkMsg == << "h", "t", "t", "p", "s", ":" >>
TextMsg == << "h", "i" >>

Types == {"submit", "reset", "button"}
Variants == {"cta", "primary", "warning"}
Texts == {"Bob", "Al"}

DefaultButtons == << [label |-> "Close", variant |-> "cta", type |-> "submit"] >>

\* ---------------------------------------------------------- the requests
GenericButtons == [label : {"B"}, variant : Variants, type : Types]
ButtonLists == UNION { [1..n -> GenericButtons] : n \in 0..MaxButtons }

NoArgument ==
    [given |-> FALSE, title |-> Undefined, icon |-> Undefined, msgs |-> None,
     prompt |-> Undefined, isError |-> FALSE, buttons |-> None]

NoticeRequests ==
    {NoArgument} \cup
    [given : {TRUE}, title : {"T"}, icon : {Undefined, AppIconSentinel},
     msgs : {None, Some(<< TextMsg, LinkMsg >>)},
     prompt : {Undefined, "", "Name"}, isError : {FALSE},
     buttons : {None} \cup {Some(bl) : bl \in ButtonLists}]

alertRequest(title, msgs) ==
    [given |-> TRUE, title |-> title, icon |-> Undefined, msgs |-> Some(msgs),
     prompt |-> Undefined, isError |-> FALSE, buttons |-> None]

alertWithAppIconRequest(title, msgs) ==
    [given |-> TRUE, title |-> title, icon |-> AppIconSentinel, msgs |-> Some(msgs),
     prompt |-> Undefined, isError |-> FALSE, buttons |-> None]

errorRequest(title, msgs) ==
    [given |-> TRUE, title |-> title, icon |-> AlertRedIcon, msgs |-> Some(msgs),
     prompt |-> Undefined, isError |-> TRUE, buttons |-> None]

confirmButtonsNoReset(labels) ==
    << [label |-> labels[1], type |-> "button", variant |-> "primary"],
       [label |-> labels[2], type |-> "submit", variant |-> "cta"] >>

confirmButtons(labels) ==
    << [label |-> labels[1], type |-> "reset", variant |-> "primary"],
       [label |-> labels[2], type |-> "submit", variant |-> "cta"] >>

confirmRequest(title, msg, labels) ==
    [given |-> TRUE, title |-> title, icon |-> Undefined, msgs |-> Some(<< msg >>),
     prompt |-> Undefined, isError |-> FALSE, buttons |-> Some(confirmButtons(labels))]

warningButtons(labels) ==
    << [label |-> labels[1], type |-> "submit", variant |-> "primary"],
       [label |-> labels[2], type |-> "button", variant |-> "warning"] >>

warningRequest(title, msg, labels) ==
    [given |-> TRUE, title |-> title, icon |-> Undefined, msgs |-> Some(<< msg >>),
     prompt |-> Undefined, isError |-> FALSE, buttons |-> Some(warningButtons(labels))]

promptButtons(labels) ==
    << [label |-> labels[1], type |-> "reset", variant |-> "primary"],
       [label |-> labels[2], type |-> "submit", variant |-> "cta"] >>

promptRequest(title, msg, placeholder, labels) ==
    [given |-> TRUE, title |-> title, icon |-> Undefined, msgs |-> Some(<< msg >>),
     prompt |-> placeholder, isError |-> FALSE, buttons |-> Some(promptButtons(labels))]

SwitchCommands == {"showConfirm", "showPrompt", "showWarning"}
PlainCommands == {"showAlert", "showError", "showAbout"}
Commands == SwitchCommands \cup PlainCommands

\* the first notice() request each command makes
FirstRequest(c) ==
    CASE c = "showAlert" -> alertRequest("Connect to the Internet", << TextMsg >>)
      [] c = "showError" -> errorRequest("Couldn't save your changes", << TextMsg >>)
      [] c = "showAbout" ->
            alertWithAppIconRequest("About Dialog Variations", << TextMsg, TextMsg, LinkMsg >>)
      [] c = "showConfirm" ->
            confirmRequest("Enable Smart Filters?", TextMsg, << "Cancel", "Enable" >>)
      [] c = "showPrompt" ->
            promptRequest("Create Shape", TextMsg, "Shape", << "Cancel", "OK" >>)
      [] c = "showWarning" ->
            warningRequest("Reset Preferences?", TextMsg, << "Cancel", "Reset Preferences" >>)

\* switch (res.which) of showConfirm / showPrompt / showWarning: the follow-up
\* alert's request, or None when no case matches
FollowUpRequest(c, res) ==
    CASE c = "showConfirm" /\ res.which = 0 -> Some(alertRequest("Smart Filters", << TextMsg >>))
      [] c = "showConfirm" /\ res.which = 1 ->
            Some(alertRequest("Smart Filters Enabled", << TextMsg >>))
      [] c = "showPrompt" /\ res.which = 0 -> Some(alertRequest("Shape to Create", << TextMsg >>))
      [] c = "showPrompt" /\ res.which = 1 ->
            Some(alertRequest("Shape to Create", << TextMsg \o << res.value >> >>))
      [] c = "showWarning" /\ res.which = 0 ->
            Some(alertRequest("Preferences Preserved", << TextMsg >>))
      [] c = "showWarning" /\ res.which = 1 ->
            Some(alertRequest("Preferences Reset", << TextMsg >>))
      [] OTHER -> None

\* ------------------------------------------------------------ the state
VARIABLES
    cmd,             \* the entry point invoked: a command, or "notice" for a direct call
    stage,           \* "first" or "followup": which notice() call of the command runs
    pc,              \* position inside the running notice() call / the command
    req,             \* the argument of the running notice() call
    icon, iconSize,  \* notice's reassignable locals
    buttons,         \* the buttons parameter after its default was applied
    manifest,        \* how the manifest lookup went ("skipped" when not attempted)
    okButtonIdx, cancelButtonIdx,
    dialogs,         \* the dialog elements created by this invocation, in order
    inputText,       \* the text in the #prompt input of the current dialog
    closedBy,        \* how the current dialog ended
    clicked,         \* index of the button clicked, -1 if none
    submitRan,       \* form.onsubmit ran for the current dialog
    closeArg,        \* the object passed to dialog.close
    outcome,         \* of the running notice() call: pending / resolved / rejected
    result,          \* the value notice() resolved with
    firstResult,     \* what the command's first dialog resolved with
    firstClosedBy,   \* how the command's first dialog ended
    followUps,       \* number of follow-up alert calls made by the command
    cmdOutcome       \* pending / resolved / undefined / rejected

vars == << cmd, stage, pc, req, icon, iconSize, buttons, manifest, okButtonIdx,
           cancelButtonIdx, dialogs, inputText, closedBy, clicked, submitRan,
           closeArg, outcome, result, firstResult, firstClosedBy, followUps,
           cmdOutcome >>

NoResult == [which |-> -1, value |-> ""]

ManifestOutcomes ==
    {"getPluginFolderFails", "getEntryFails", "noEntry", "readFails",
     "parseFails", "noIconField", "ok"}

cur == dialogs[Len(dialogs)]

Init ==
    /\ cmd = "none"
    /\ stage = "first"
    /\ pc = "idle"
    /\ req = NoArgument
    /\ icon = Undefined
    /\ iconSize = DefaultIconSize
    /\ buttons = << >>
    /\ manifest = "skipped"
    /\ okButtonIdx = -1
    /\ cancelButtonIdx = -1
    /\ dialogs = << >>
    /\ inputText = ""
    /\ closedBy = "none"
    /\ clicked = -1
    /\ submitRan = FALSE
    /\ closeArg = NoResult
    /\ outcome = "pending"
    /\ result = NoResult
    /\ firstResult = NoResult
    /\ firstClosedBy = "none"
    /\ followUps = 0
    /\ cmdOutcome = "pending"

\* ---------------------------------------------------------- notice()
\* parameter binding of notice (destructuring with defaults)
BoundButtons(r) == IF IsSome(r.buttons) THEN r.buttons[1] ELSE DefaultButtons

\* the state a fresh notice(r) call starts in
EnterNotice(r) ==
    /\ req' = r
    /\ icon' = r.icon
    /\ iconSize' = DefaultIconSize
    /\ buttons' = BoundButtons(r)
    /\ manifest' = "skipped"
    /\ okButtonIdx' = -1
    /\ cancelButtonIdx' = -1
    /\ inputText' = ""
    /\ closedBy' = "none"
    /\ clicked' = -1
    /\ submitRan' = FALSE
    /\ closeArg' = NoResult
    /\ outcome' = "pending"
    /\ result' = NoResult
    /\ pc' = "icon"

\* a direct call of notice with any request
CallNotice ==
    /\ pc = "idle"
    /\ \E r \in NoticeRequests : EnterNotice(r)
    /\ cmd' = "notice"
    /\ UNCHANGED << stage, dialogs, firstResult, firstClosedBy, followUps, cmdOutcome >>

\* the host invokes one of the exported commands
InvokeCommand ==
    /\ pc = "idle"
    /\ \E c \in Commands : cmd' = c /\ EnterNotice(FirstRequest(c))
    /\ UNCHANGED << stage, dialogs, firstResult, firstClosedBy, followUps, cmdOutcome >>

\* if (icon === 'app-icon') { try { ... } catch (err) {} }
IconAfterLookup(ic, how) == IF how = "ok" THEN ManifestIconName ELSE ic
IconSizeAfterLookup(sz, how) == IF how = "ok" THEN AppIconSize ELSE sz

ResolveAppIcon ==
    /\ pc = "icon"
    /\ IF icon = AppIconSentinel
         THEN \E how \in ManifestOutcomes :
                /\ manifest' = how
                /\ icon' = IconAfterLookup(icon, how)
                /\ iconSize' = IconSizeAfterLookup(iconSize, how)
         ELSE UNCHANGED << manifest, icon, iconSize >>
    /\ pc' = "build"
    /\ UNCHANGED << cmd, stage, req, buttons, okButtonIdx, cancelButtonIdx, dialogs,
                    inputText, closedBy, clicked, submitRan, closeArg, outcome,
                    result, firstResult, firstClosedBy, followUps, cmdOutcome >>

\* msg.substr(0, 4) === "http" ? <a href=msg>msg</a> : <p>msg</p>
Substr4(msg) == SubSeq(msg, 1, IF Len(msg) < HttpPrefixLen THEN Len(msg) ELSE HttpPrefixLen)
RenderMsg(msg) ==
    IF Substr4(msg) = << "h", "t", "t", "p" >>
      THEN [tag |-> "a", href |-> msg, text |-> msg]
      ELSE [tag |-> "p", href |-> << >>, text |-> msg]

\* ${icon ? `<img src="${icon}" />` : ""}
HeaderImg(ic) == IF Truthy(ic) THEN ic ELSE ""

\* buttons.map(... `<button id="btn${idx}" type=... uxp-variant=...>label</button>`)
RenderButton(b, idx) == [id |-> idx, type |-> b.type, variant |-> b.variant, label |-> b.label]

\* document.createElement("dialog") and the innerHTML template
BuildDialog(r, ic, sz, btns) ==
    [title |-> r.title, img |-> HeaderImg(ic), imgSize |-> sz, isError |-> r.isError,
     body |-> [i \in 1..Len(r.msgs[1]) |-> RenderMsg(r.msgs[1][i])],
     hasInput |-> Truthy(r.prompt), placeholder |-> r.prompt,
     buttons |-> [i \in 1..Len(btns) |-> RenderButton(btns[i], i - 1)],
     attached |-> FALSE, open |-> FALSE, wasShown |-> FALSE]

\* the markup is built outside any try: msgs.map throws when msgs is undefined,
\* and a failing host step there rejects the call
BuildMarkup ==
    /\ pc = "build"
    /\ \E hostOk \in BOOLEAN :
         IF hostOk /\ IsSome(req.msgs)
           THEN /\ dialogs' = Append(dialogs, BuildDialog(req, icon, iconSize, buttons))
                /\ pc' = "wire"
                /\ UNCHANGED outcome
           ELSE /\ pc' = "thrown"
                /\ outcome' = "rejected"
                /\ UNCHANGED dialogs
    /\ UNCHANGED << cmd, stage, req, icon, iconSize, buttons, manifest, okButtonIdx,
                    cancelButtonIdx, inputText, closedBy, clicked, submitRan, closeArg,
                    result, firstResult, firstClosedBy, followUps, cmdOutcome >>

\* if (type === "submit" || variant === "cta") okButtonIdx = idx
MarksOk(b) == b.type = "submit" \/ b.variant = "cta"

NextOkIdxFirstWins(okIdx, b, idx) == IF MarksOk(b) /\ okIdx = -1 THEN idx ELSE okIdx

NextOkIdx(okIdx, b, idx) == IF MarksOk(b) THEN idx ELSE okIdx

\* if (type === "reset") cancelButtonIdx = idx
NextCancelIdxOnSubmit(cancelIdx, b, idx) == IF b.type = "submit" THEN idx ELSE cancelIdx

NextCancelIdx(cancelIdx, b, idx) == IF b.type = "reset" THEN idx ELSE cancelIdx

\* buttons.forEach((button, idx) => ...), from index idx on
RECURSIVE ForEachButton(_, _, _)
ForEachButton(btns, idx, acc) ==
    IF idx >= Len(btns)
      THEN acc
      ELSE ForEachButton(btns, idx + 1,
                         [ok |-> NextOkIdx(acc.ok, btns[idx + 1], idx),
                          cancel |-> NextCancelIdx(acc.cancel, btns[idx + 1], idx)])

\* let okButtonIdx = -1, cancelButtonIdx = -1; form.onsubmit = ...; buttons.forEach(...)
WireHandlers ==
    /\ pc = "wire"
    /\ LET scan == ForEachButton(buttons, 0, [ok |-> -1, cancel |-> -1])
       IN /\ okButtonIdx' = scan.ok
          /\ cancelButtonIdx' = scan.cancel
    /\ pc' = "append"
    /\ UNCHANGED << cmd, stage, req, icon, iconSize, buttons, manifest, dialogs,
                    inputText, closedBy, clicked, submitRan, closeArg, outcome,
                    result, firstResult, firstClosedBy, followUps, cmdOutcome >>

\* catch (err) { return {which: cancelButtonIdx, value: ""}; }
CatchResultKeepsText(cancelIdx) == [which |-> cancelIdx, value |-> inputText]

CatchResult(cancelIdx) == [which |-> cancelIdx, value |-> ""]

\* finally { dialog.remove(); }
RemovedLeaks(d) == [d EXCEPT !.open = FALSE]

Removed(d) == [d EXCEPT !.attached = FALSE, !.open = FALSE]

SetCur(d) == [dialogs EXCEPT ![Len(dialogs)] = d]

\* the catch and finally blocks of notice, taken when a step of the try fails
CatchAndReturn(how) ==
    /\ closedBy' = how
    /\ result' = CatchResult(cancelButtonIdx)
    /\ outcome' = "resolved"
    /\ dialogs' = SetCur(Removed(cur))
    /\ pc' = "returned"

\* try { document.appendChild(dialog); ...
AppendDialog ==
    /\ pc = "append"
    /\ \E hostOk \in BOOLEAN :
         IF hostOk
           THEN /\ dialogs' = SetCur([cur EXCEPT !.attached = TRUE])
                /\ pc' = "show"
                /\ UNCHANGED << closedBy, result, outcome >>
           ELSE CatchAndReturn("appendFailed")
    /\ UNCHANGED << cmd, stage, req, icon, iconSize, buttons, manifest, okButtonIdx,
                    cancelButtonIdx, inputText, clicked, submitRan, closeArg,
                    firstResult, firstClosedBy, followUps, cmdOutcome >>

\* ... return await dialog.showModal();
ShowModal ==
    /\ pc = "show"
    /\ \E hostOk \in BOOLEAN :
         IF hostOk
           THEN /\ dialogs' = SetCur([cur EXCEPT !.open = TRUE, !.wasShown = TRUE])
                /\ pc' = "shown"
                /\ UNCHANGED << closedBy, result, outcome >>
           ELSE CatchAndReturn("showFailed")
    /\ UNCHANGED << cmd, stage, req, icon, iconSize, buttons, manifest, okButtonIdx,
                    cancelButtonIdx, inputText, clicked, submitRan, closeArg,
                    firstResult, firstClosedBy, followUps, cmdOutcome >>

\* the user edits the #prompt input (it exists only when prompt is truthy)
TypeText ==
    /\ pc = "shown"
    /\ cur.hasInput
    /\ \E t \in Texts \cup {""} : t # inputText /\ inputText' = t
    /\ UNCHANGED << cmd, stage, pc, req, icon, iconSize, buttons, manifest, okButtonIdx,
                    cancelButtonIdx, dialogs, closedBy, clicked, submitRan, closeArg,
                    outcome, result, firstResult, firstClosedBy, followUps, cmdOutcome >>

\* {which: ..., value: prompt ? dialog.querySelector("#prompt").value : ""}
CloseValue(which, promptv, text) ==
    [which |-> which, value |-> IF Truthy(promptv) THEN text ELSE ""]

\* button.onclick = e => { e.preventDefault(); dialog.close({which: idx, ...}) }
OnClickOkIdx(idx) == CloseValue(okButtonIdx, req.prompt, inputText)

OnClickOneBased(idx) == CloseValue(idx + 1, req.prompt, inputText)

OnClick(idx) == CloseValue(idx, req.prompt, inputText)

\* form.onsubmit = () => dialog.close({which: okButtonIdx, ...})
OnSubmit == CloseValue(okButtonIdx, req.prompt, inputText)

\* the default action of a click submits the form only for a submit button
\* whose click event was not cancelled
ClickSubmits(b, defaultPrevented) == b.type = "submit" /\ ~defaultPrevented

ClickButton ==
    /\ pc = "shown"
    /\ \E idx \in 0..(Len(buttons) - 1) :
         /\ clicked' = idx
         /\ closeArg' = OnClick(idx)
         /\ submitRan' = ClickSubmits(buttons[idx + 1], TRUE)
    /\ closedBy' = "click"
    /\ dialogs' = SetCur([cur EXCEPT !.open = FALSE])
    /\ pc' = "closing"
    /\ UNCHANGED << cmd, stage, req, icon, iconSize, buttons, manifest, okButtonIdx,
                    cancelButtonIdx, inputText, outcome, result, firstResult,
                    firstClosedBy, followUps, cmdOutcome >>

\* enter pressed inside the form: the form's submit handler runs
SubmitForm ==
    /\ pc = "shown"
    /\ closeArg' = OnSubmit
    /\ submitRan' = TRUE
    /\ closedBy' = "submit"
    /\ dialogs' = SetCur([cur EXCEPT !.open = FALSE])
    /\ pc' = "closing"
    /\ UNCHANGED << cmd, stage, req, icon, iconSize, buttons, manifest, okButtonIdx,
                    cancelButtonIdx, inputText, clicked, outcome, result, firstResult,
                    firstClosedBy, followUps, cmdOutcome >>

\* the host dismisses the modal: showModal's promise rejects, catch and
\* finally run
Dismiss ==
    /\ pc = "shown"
    /\ CatchAndReturn("dismiss")
    /\ UNCHANGED << cmd, stage, req, icon, iconSize, buttons, manifest, okButtonIdx,
                    cancelButtonIdx, inputText, clicked, submitRan, closeArg,
                    firstResult, firstClosedBy, followUps, cmdOutcome >>

\* showModal's promise resolves with the object given to close; finally runs
ReturnFromModal ==
    /\ pc = "closing"
    /\ result' = closeArg
    /\ outcome' = "resolved"
    /\ dialogs' = SetCur(Removed(cur))
    /\ pc' = "returned"
    /\ UNCHANGED << cmd, stage, req, icon, iconSize, buttons, manifest, okButtonIdx,
                    cancelButtonIdx, inputText, closedBy, clicked, submitRan, closeArg,
                    firstResult, firstClosedBy, followUps, cmdOutcome >>

\* ------------------------------------------------------ the command layer
\* const res = await confirm/prompt/warning(...); switch (res.which) { ... }
BranchOnResult ==
    /\ pc = "returned"
    /\ cmd \in SwitchCommands
    /\ stage = "first"
    /\ firstResult' = result
    /\ firstClosedBy' = closedBy
    /\ LET next == FollowUpRequest(cmd, result)
       IN IF IsSome(next)
            THEN /\ EnterNotice(next[1])
                 /\ stage' = "followup"
                 /\ followUps' = followUps + 1
                 /\ UNCHANGED cmdOutcome
            ELSE /\ pc' = "done"
                 /\ cmdOutcome' = "undefined"
                 /\ UNCHANGED << stage, followUps, req, icon, iconSize, buttons,
                                 manifest, okButtonIdx, cancelButtonIdx, inputText,
                                 closedBy, clicked, submitRan, closeArg, outcome, result >>
    /\ UNCHANGED << cmd, dialogs >>

\* return alert(...) / return notice(...): the caller resolves with the result
CommandReturn ==
    /\ pc = "returned"
    /\ cmd \notin SwitchCommands \/ stage = "followup"
    /\ pc' = "done"
    /\ cmdOutcome' = "resolved"
    /\ UNCHANGED << cmd, stage, req, icon, iconSize, buttons, manifest, okButtonIdx,
                    cancelButtonIdx, dialogs, inputText, closedBy, clicked, submitRan,
                    closeArg, outcome, result, firstResult, firstClosedBy, followUps >>

\* an exception thrown by notice rejects every async caller up the chain
CommandReject ==
    /\ pc = "thrown"
    /\ pc' = "failed"
    /\ cmdOutcome' = "rejected"
    /\ UNCHANGED << cmd, stage, req, icon, iconSize, buttons, manifest, okButtonIdx,
                    cancelButtonIdx, dialogs, inputText, closedBy, clicked, submitRan,
                    closeArg, outcome, result, firstResult, firstClosedBy, followUps >>

Next ==
    \/ CallNotice
    \/ InvokeCommand
    \/ ResolveAppIcon
    \/ BuildMarkup
    \/ WireHandlers
    \/ AppendDialog
    \/ ShowModal
    \/ TypeText
    \/ ClickButton
    \/ SubmitForm
    \/ Dismiss
    \/ ReturnFromModal
    \/ BranchOnResult
    \/ CommandReturn
    \/ CommandReject

Spec == Init /\ [][Next]_vars

\* =============================================================== claims
Built == pc \in {"wire", "append", "show", "shown", "closing", "returned"}
ButtonIdxs == 0..(Len(buttons) - 1)
ResetIdxs == {i \in ButtonIdxs : buttons[i + 1].type = "reset"}
SubmitIdxs == {i \in ButtonIdxs : buttons[i + 1].type = "submit"}
CtaIdxs == {i \in ButtonIdxs : buttons[i + 1].variant = "cta"}
OkIdxs == SubmitIdxs \cup CtaIdxs
MinOf(S) == CHOOSE x \in S : \A y \in S : x <= y
MaxOf(S) == CHOOSE x \in S : \A y \in S : y <= x
ExpectedValue == IF Truthy(req.prompt) THEN inputText ELSE ""

\* C1: when the modal is dismissed without a click or a submission (showModal
\* rejects), notice resolves with which = the index of a button of type
\* "reset" if the list has one, otherwise -1, and with value = "".
C1_DismissGivesResetIndex ==
    (pc = "returned" /\ closedBy = "dismiss") =>
        /\ outcome = "resolved"
        /\ result.value = ""
        /\ IF ResetIdxs = {} THEN result.which = -1 ELSE result.which \in ResetIdxs

C1_Witness ==
    /\ pc = "returned" /\ closedBy = "dismiss" /\ cmd = "notice"
    /\ ResetIdxs # {} /\ result.which \in ResetIdxs
    /\ Truthy(req.prompt) /\ inputText = "Bob" /\ result.value = ""

\* C2: clicking a button of type "submit" resolves with which = that button's
\* position in the list and value = the text currently in the prompt input,
\* or "" when no prompt was requested.
C2_SubmitButtonClick ==
    (pc = "returned" /\ closedBy = "click" /\ clicked \in SubmitIdxs) =>
        /\ outcome = "resolved"
        /\ result.which = clicked
        /\ result.value = ExpectedValue

C2_Witness ==
    /\ pc = "returned" /\ closedBy = "click" /\ cmd = "showPrompt" /\ stage = "first"
    /\ clicked \in SubmitIdxs /\ inputText = "Bob"
    /\ result = [which |-> 1, value |-> "Bob"]

\* C3: once a call of notice has returned (or thrown), the dialog element it
\* created is not attached to the document, whichever way the dialog ended;
\* a dialog of an earlier call of the same command stays detached.
C3_DetachedAfterReturn ==
    /\ outcome # "pending" => \A i \in DOMAIN dialogs : ~dialogs[i].attached
    /\ \A i \in DOMAIN dialogs : i < Len(dialogs) => ~dialogs[i].attached

C3_Witness ==
    /\ pc = "returned" /\ closedBy = "dismiss"
    /\ cur.wasShown /\ ~cur.attached

\* C4 (as claimed): the promise returned by notice never rejects, whatever the
\* request and whichever host step fails.
C4_NeverRejects == outcome # "rejected"

\* C5 (as claimed): with the app-icon sentinel as icon and an unresolvable
\* manifest, the header notice renders contains no icon image.
C5_NoIconWhenManifestUnresolved ==
    (Built /\ req.icon = AppIconSentinel /\ manifest \notin {"ok", "skipped"}) =>
        cur.img = ""

\* C6 (as claimed): value is "" unless a prompt was requested and the submit
\* button was the one chosen.
ChosenIsSubmit == closedBy = "submit" \/ (closedBy = "click" /\ clicked \in SubmitIdxs)

C6_ValueOnlyFromSubmit ==
    pc = "returned" => (result.value # "" => Truthy(req.prompt) /\ ChosenIsSubmit)

\* C6 (amended): value is "" unless a prompt was requested and the dialog was
\* closed by a button click or by form submission; a click on any button of a
\* prompt dialog, reset-type and plain ones included, yields the typed text.
C6_ValueOnlyFromHandlers ==
    pc = "returned" =>
        /\ result.value # "" => Truthy(req.prompt) /\ closedBy \in {"click", "submit"}
        /\ closedBy \in {"click", "submit"} => result.value = ExpectedValue
        /\ closedBy \notin {"click", "submit"} => result.value = ""

C6_Witness ==
    /\ pc = "returned" /\ closedBy = "click" /\ clicked \notin SubmitIdxs
    /\ Truthy(req.prompt) /\ inputText = "Bob" /\ result.value = "Bob"

\* C7: a click on a button whose type is not "submit" resolves with which =
\* that button's own index and value = the current input value, and the
\* form's submit handler does not run; in warning(), a click on OK (type
\* "button", index 1) resolves with which = 1 although okButtonIdx is 0.
C7_NonSubmitClick ==
    /\ (pc = "returned" /\ closedBy = "click" /\ clicked \notin SubmitIdxs) =>
          /\ result.which = clicked
          /\ result.value = ExpectedValue
          /\ ~submitRan
    /\ (pc = "returned" /\ cmd = "showWarning" /\ stage = "first"
          /\ closedBy = "click" /\ clicked = 1) =>
          /\ buttons[2].type = "button"
          /\ okButtonIdx = 0
          /\ result.which = 1

C7_Witness ==
    /\ pc = "returned" /\ cmd = "showWarning" /\ stage = "first"
    /\ closedBy = "click" /\ clicked = 1 /\ result.which = 1 /\ okButtonIdx = 0

\* C8 (as claimed): with the buttons field absent or an empty list, the dialog
\* has exactly one button, labelled "Close" with type "submit", and
\* submitting or clicking it resolves with which = 0.
ZeroButtonsSupplied == ~IsSome(req.buttons) \/ req.buttons[1] = << >>

C8_ZeroButtonsGiveClose ==
    (Built /\ ZeroButtonsSupplied) =>
        /\ Len(cur.buttons) = 1
        /\ cur.buttons[1].label = "Close"
        /\ cur.buttons[1].type = "submit"
        /\ (pc = "returned" /\ closedBy \in {"click", "submit"}) => result.which = 0

\* C9 (as claimed): a form submission without a click resolves with which =
\* the index of the cta button, else of the first submit button, -1 if none;
\* with several submit or cta buttons it is the first such button.
FirstCtaElseFirstSubmit ==
    IF CtaIdxs # {} THEN MinOf(CtaIdxs)
    ELSE IF SubmitIdxs # {} THEN MinOf(SubmitIdxs) ELSE -1

C9_SubmitGivesFirstOk ==
    (pc = "returned" /\ closedBy = "submit") =>
        IF OkIdxs = {} THEN result.which = -1
        ELSE result.which \in {FirstCtaElseFirstSubmit, MinOf(OkIdxs)}

\* C9 (amended): a form submission without a click resolves with which = the
\* index of the last button, in list order, whose type is "submit" or whose
\* variant is "cta", -1 if there is none.
C9_SubmitGivesLastOk ==
    (pc = "returned" /\ closedBy = "submit") =>
        /\ outcome = "resolved"
        /\ result.which = IF OkIdxs = {} THEN -1 ELSE MaxOf(OkIdxs)
        /\ result.value = ExpectedValue

C9_Witness ==
    /\ pc = "returned" /\ closedBy = "submit"
    /\ Cardinality(OkIdxs) > 1
    /\ result.which = MaxOf(OkIdxs) /\ result.which # MinOf(OkIdxs)

\* C10 (as claimed): in showConfirm, showPrompt and showWarning, whichever way
\* the first dialog ends (click, submission, dismissal), which is 0 or 1 and
\* the command makes exactly one follow-up alert.
EndedByUser(how) == how \in {"click", "submit", "dismiss"}

C10_AlwaysOneFollowUp ==
    (cmd \in SwitchCommands /\ pc \in {"done", "failed"} /\ EndedByUser(firstClosedBy)) =>
        /\ firstResult.which \in {0, 1}
        /\ followUps = 1

\* C10 (amended): in showConfirm and showPrompt, whichever way the first
\* dialog ends, which is 0 or 1 and the command starts exactly one follow-up
\* alert; in showWarning that holds for a click and for a submission, while a
\* dismissal gives which = -1 and no follow-up alert.  A follow-up alert is
\* started only after the first dialog was resolved and removed, and at most
\* one dialog is open at any time.
WarningDismissed(c, how) == c = "showWarning" /\ how = "dismiss"

C10_FollowUpExceptWarningDismissal ==
    /\ (cmd \in SwitchCommands /\ stage = "first" /\ pc = "returned"
          /\ EndedByUser(closedBy)) =>
          IF WarningDismissed(cmd, closedBy)
            THEN result.which = -1 ELSE result.which \in {0, 1}
    /\ (cmd \in SwitchCommands /\ pc \in {"done", "failed"}
          /\ EndedByUser(firstClosedBy)) =>
          IF WarningDismissed(cmd, firstClosedBy)
            THEN followUps = 0 /\ firstResult.which = -1
            ELSE followUps = 1 /\ firstResult.which \in {0, 1}
    /\ stage = "followup" =>
          /\ followUps = 1
          /\ ~dialogs[1].attached /\ ~dialogs[1].open
    /\ Cardinality({i \in DOMAIN dialogs : dialogs[i].open \/ dialogs[i].attached}) <= 1

C10_Witness ==
    /\ cmd = "showConfirm" /\ stage = "followup" /\ pc = "shown"
    /\ firstClosedBy = "dismiss" /\ firstResult.which = 0
    /\ followUps = 1 /\ Len(dialogs) = 2 /\ dialogs[2].open /\ ~dialogs[1].attached

====
